---- MODULE Spec2Model ----
(***************************************************************************)
(* The derived-view pipeline of chicago_visualization_full_code.py: the    *)
(* table loaded from the CSV, the temporal-field normalisation, the        *)
(* latitude/longitude column detection and the ten visualisation blocks,   *)
(* each reduced to the pandas computation that produces the plotted view.  *)
(*                                                                         *)
(* A DataFrame is a record [columns, rows]: columns is the ordered list of *)
(* column names and rows is a bag (row -> multiplicity) of rows, a row     *)
(* being a function from the column names to cell values.  No computation  *)
(* of the script depends on the row order except the order of ties in      *)
(* value_counts; category k stands for the k-th distinct value met in the  *)
(* file, so ties come out in ascending k.                                  *)
(***************************************************************************)
EXTENDS Integers, Sequences, FiniteSets, Bags, TLC

VARIABLES df, lat_col, lon_col, top_primary, arrest_rate, df_ts, monthly,
          hourly, weekday_counts, loc_top10, sample_scatter, cum,
          daily_counts, monthly_groups, done, err

vars == <<df, lat_col, lon_col, top_primary, arrest_rate, df_ts, monthly,
          hourly, weekday_counts, loc_top10, sample_scatter, cum,
          daily_counts, monthly_groups, done, err>>

views == <<top_primary, arrest_rate, df_ts, monthly, hourly, weekday_counts,
           loc_top10, sample_scatter, cum, daily_counts, monthly_groups>>

-----------------------------------------------------------------------------
(* Bounds of the model *)

\* rows of a table of the temporal family
MaxRows == 2
\* distinct categories of a table of the categorical family
NumCats == 11
\* extra rows (per arrest value) of the heavy category
MaxExtra == 2
\* rows per kind of a small table of the spatial family
MaxGeo == 1

(* Program constants *)

\* head(10)
TopN == 10
\* sample(n=min(20000, len(df)))
Cap == 20000
\* hist(bins=24, range=(0,24))
HourBins == 24

-----------------------------------------------------------------------------
(* Cell values *)

\* a missing numeric or categorical cell
NaN == -1
\* a missing timestamp
NaT == <<>>
\* a missing string cell of the Weekday column
NoDay == "NaN"
\* Python's None
None == "None"

DateCols == {"IncidentDate", "YearMonth", "DateOnly"}

NullOf(c) == IF c \in DateCols THEN NaT ELSE IF c = "Weekday" THEN NoDay ELSE NaN

IsNull(r, c) == r[c] = NullOf(c)

weekday_order ==
  <<"Monday", "Tuesday", "Wednesday", "Thursday", "Friday", "Saturday", "Sunday">>

-----------------------------------------------------------------------------
(* Sequences, bags and series *)

Min(a, b) == IF a < b THEN a ELSE b

Range(s) == {s[i] : i \in 1..Len(s)}

RECURSIVE SumBag(_, _)
\* the number of rows of bag B whose row is in S
SumBag(B, S) ==
  IF S = {} THEN 0
  ELSE LET x == CHOOSE x \in S : TRUE IN B[x] + SumBag(B, S \ {x})

\* len(frame)
Size(B) == SumBag(B, DOMAIN B)

\* the rows S of B, with their multiplicities
Filter(B, S) == [r \in S \cap DOMAIN B |-> B[r]]

\* the bag of the images f[row] of the rows of B
MapBag(B, f) ==
  [y \in {f[x] : x \in DOMAIN B} |-> SumBag(B, {x \in DOMAIN B : f[x] = y})]

RECURSIVE LexLess(_, _)
\* lexicographic order of two integer tuples
LexLess(a, b) ==
  IF a = <<>> THEN b # <<>>
  ELSE IF b = <<>> THEN FALSE
  ELSE IF Head(a) # Head(b) THEN Head(a) < Head(b)
  ELSE LexLess(Tail(a), Tail(b))

\* the integer tuples of S in ascending lexicographic order
SortLex(S) ==
  [i \in 1..Cardinality(S) |->
     CHOOSE x \in S : Cardinality({y \in S : LexLess(y, x)}) = i - 1]

\* the integers of S in ascending order
SortInts(S) ==
  [i \in 1..Cardinality(S) |->
     CHOOSE x \in S : Cardinality({y \in S : y < x}) = i - 1]

RECURSIVE SumVals(_, _)
\* the sum of the first n values of series s
SumVals(s, n) == IF n = 0 THEN 0 ELSE s[n].val + SumVals(s, n - 1)

Keys(s) == [i \in 1..Len(s) |-> s[i].key]

-----------------------------------------------------------------------------
(* pandas operations on a DataFrame *)

HasCol(d, c) == c \in Range(d.columns)

\* len(df)
Len_(d) == Size(d.rows)

\* df[c] = col, col giving the new cell of every row: a new column is
\* appended, an existing one is overwritten
Assign(d, c, col) ==
  [columns |-> IF HasCol(d, c) THEN d.columns ELSE Append(d.columns, c),
   rows    |-> MapBag(d.rows, [r \in DOMAIN d.rows |-> (c :> col[r]) @@ r])]

\* df.dropna(subset=cs)
DropNa(d, cs) ==
  [columns |-> d.columns,
   rows    |-> Filter(d.rows, {r \in DOMAIN d.rows : \A c \in cs : ~IsNull(r, c)})]

\* the counts of Series.value_counts(): value -> number of rows, nulls dropped
ValueCounts(B, c) ==
  LET nn == Filter(B, {r \in DOMAIN B : ~IsNull(r, c)})
  IN [v \in {r[c] : r \in DOMAIN nn} |->
        SumBag(nn, {r \in DOMAIN nn : r[c] = v})]

\* value_counts(sort=False): the values in the order met, not by count
SortValuesDesc_unsorted(vc) ==
  LET s == SortInts(DOMAIN vc)
  IN [i \in 1..Len(s) |-> [key |-> s[i], val |-> vc[s[i]]]]

\* the order of Series.value_counts(): descending count, ties as first met
SortValuesDesc(vc) ==
  LET Ahead(a, b) == vc[a] > vc[b] \/ (vc[a] = vc[b] /\ a < b)
      s == [i \in 1..Cardinality(DOMAIN vc) |->
              CHOOSE x \in DOMAIN vc :
                Cardinality({y \in DOMAIN vc : Ahead(y, x)}) = i - 1]
  IN [i \in 1..Len(s) |-> [key |-> s[i], val |-> vc[s[i]]]]

\* Series.head(n)
HeadN(s, n) == SubSeq(s, 1, Min(n, Len(s)))

\* groupby(...).size() with its sorted index, key giving the (integer tuple)
\* group key of every row
GroupSize(B, key) ==
  LET s == SortLex({key[r] : r \in DOMAIN B})
  IN [i \in 1..Len(s) |->
        [key |-> s[i], val |-> SumBag(B, {r \in DOMAIN B : key[r] = s[i]})]]

\* a running sum that leaves the current entry out
CumSum_exclusive(s) == [i \in 1..Len(s) |-> [key |-> s[i].key, val |-> SumVals(s, i - 1)]]

\* Series.cumsum()
CumSum(s) == [i \in 1..Len(s) |-> [key |-> s[i].key, val |-> SumVals(s, i)]]

-----------------------------------------------------------------------------
(* The .dt accessors of a timestamp <<year, month, day, hour>> *)

DtYear(ts)  == IF ts = NaT THEN NaN ELSE ts[1]
DtMonth(ts) == IF ts = NaT THEN NaN ELSE ts[2]
DtDay(ts)   == IF ts = NaT THEN NaN ELSE ts[3]
DtHour(ts)  == IF ts = NaT THEN NaN ELSE ts[4]

MonthOffset == <<0, 3, 2, 5, 0, 3, 5, 1, 4, 6, 2, 4>>
SundayFirst ==
  <<"Sunday", "Monday", "Tuesday", "Wednesday", "Thursday", "Friday", "Saturday">>

\* .dt.day_name(): the day of the week of a Gregorian date
DayName(ts) ==
  IF ts = NaT THEN NoDay
  ELSE LET y == IF ts[2] < 3 THEN ts[1] - 1 ELSE ts[1]
           w == (y + (y \div 4) - (y \div 100) + (y \div 400)
                   + MonthOffset[ts[2]] + ts[3]) % 7
       IN SundayFirst[w + 1]

\* to_period('D'): buckets of one day
ToMonthStart_day(ts) == IF ts = NaT THEN NaT ELSE <<ts[1], ts[2], ts[3], 0>>

\* .dt.to_period('M').dt.to_timestamp(): the first instant of the month
ToMonthStart(ts) == IF ts = NaT THEN NaT ELSE <<ts[1], ts[2], 1, 0>>

\* .dt.date
DtDate(ts) == IF ts = NaT THEN NaT ELSE <<ts[1], ts[2], ts[3]>>

-----------------------------------------------------------------------------
(* Column names: the leading characters as code points *)

Spelling(c) ==
  CASE c = "Latitude"  -> <<76, 97, 116, 105, 116, 117, 100, 101>>
    [] c = "LAT"       -> <<76, 65, 84>>
    [] c = "Longitude" -> <<76, 111, 110, 103, 105, 116, 117, 100, 101>>
    [] c = "Location Description" -> <<76, 111, 99, 97, 116, 105, 111, 110>>
    [] c = "Primary Type" -> <<80, 114, 105, 109, 97, 114, 121>>
    [] c = "Arrest"    -> <<65, 114, 114, 101, 115, 116>>
    [] c = "IncidentDate" -> <<73, 110, 99, 105, 100, 101, 110, 116>>
    [] c = "Year"      -> <<89, 101, 97, 114>>
    [] c = "Month"     -> <<77, 111, 110, 116, 104>>
    [] c = "Day"       -> <<68, 97, 121>>
    [] c = "Hour"      -> <<72, 111, 117, 114>>
    [] c = "Weekday"   -> <<87, 101, 101, 107, 100, 97, 121>>

\* str.lower()
Lower(s) == [i \in 1..Len(s) |-> IF s[i] \in 65..90 THEN s[i] + 32 ELSE s[i]]

\* str.startswith(p)
StartsWith(s, p) == Len(s) >= Len(p) /\ \A i \in 1..Len(p) : s[i] = p[i]

\* next((c for c in df.columns if c.lower().startswith(p)), None)
FirstColumn(d, p) ==
  LET hits == {i \in 1..Len(d.columns) :
                 StartsWith(Lower(Spelling(d.columns[i])), p)}
  IN IF hits = {} THEN None
     ELSE d.columns[CHOOSE i \in hits : \A j \in hits : i <= j]

-----------------------------------------------------------------------------
(* The tables the CSV can hold *)

BaseColumns == <<"Primary Type", "Location Description", "Arrest", "IncidentDate">>
TemporalCols == <<"Year", "Month", "Day", "Hour", "Weekday">>

\* the sub-list of s whose elements are in S
Pick(s, S) == SelectSeq(s, LAMBDA c : c \in S)

BaseRow(pt, loc, arrest, ts) ==
  ("Primary Type" :> pt) @@ ("Location Description" :> loc)
    @@ ("Arrest" :> arrest) @@ ("IncidentDate" :> ts)

\* the value the normaliser would derive for temporal column c
Derive(c, ts) ==
  CASE c = "Year"    -> DtYear(ts)
    [] c = "Month"   -> DtMonth(ts)
    [] c = "Day"     -> DtDay(ts)
    [] c = "Hour"    -> DtHour(ts)
    [] c = "Weekday" -> DayName(ts)

Stamps == {<<2015, 1, 5, 0>>, <<2015, 1, 5, 23>>, <<2015, 3, 7, 12>>, <<2016, 1, 5, 9>>}

\* A temporal cell already stored in the file is whatever the file holds:
\* the value of the timestamp, an empty cell, or a value written by another
\* tool (here those of 2015-03-07 12h, the day name in lower case).
RawCell(c, ts, mode) ==
  CASE mode = "derived" -> Derive(c, ts)
    [] mode = "blank"   -> NullOf(c)
    [] mode = "stale"   ->
         IF c = "Weekday" THEN "saturday" ELSE Derive(c, <<2015, 3, 7, 12>>)

RowKinds ==
  {<<ts, "derived">> : ts \in Stamps \cup {NaT}}
    \cup {<<<<2015, 1, 5, 0>>, "blank">>, <<<<2015, 1, 5, 0>>, "stale">>,
          <<NaT, "stale">>}

\* a row of the temporal family: raw temporal cells for the columns in T
TemporalRow(kind, T) ==
  BaseRow(1, 1, 0, kind[1]) @@ [c \in T |-> RawCell(c, kind[1], kind[2])]

\* the bag of the elements of sequence s
SeqToBag(s) == [x \in Range(s) |-> Cardinality({i \in 1..Len(s) : s[i] = x})]

\* the bag with n copies of x
Copies(x, n) == IF n > 0 THEN x :> n ELSE EmptyBag

Unassigned == <<>>
NoFrame == [columns |-> <<>>, rows |-> EmptyBag]

Blank ==
  /\ lat_col = None /\ lon_col = None
  /\ top_primary = Unassigned /\ arrest_rate = Unassigned
  /\ df_ts = NoFrame /\ monthly = Unassigned /\ hourly = Unassigned
  /\ weekday_counts = Unassigned /\ loc_top10 = Unassigned
  /\ sample_scatter = EmptyBag /\ cum = Unassigned
  /\ daily_counts = Unassigned /\ monthly_groups = Unassigned
  /\ done = {} /\ err = "none"

RowLists == UNION {[1..k -> RowKinds] : k \in 0..MaxRows}

TemporalTable(s, T) ==
  [columns |-> BaseColumns \o Pick(TemporalCols, T),
   rows    |-> SeqToBag([i \in 1..Len(s) |-> TemporalRow(s[i], T)])]

\* tables of a few rows: any timestamps, any subset of stored temporal columns
TemporalTables ==
  {TemporalTable(s, T) : s \in RowLists, T \in SUBSET Range(TemporalCols)}

InitTemporal == df \in TemporalTables /\ Blank

\* the location of the rows of category k: two categories share a location
LocOf(k) == IF k \div 2 = 0 THEN NaN ELSE k \div 2

\* Categories 1..p with one row each, whose arrest flag alternates from a;
\* category h has eA more rows with an arrest and eN more without; z rows
\* have no category.  No row has a timestamp.
CategoricalTable(p, h, eA, eN, a, z) ==
  LET N(k, f) == (IF (k + a) % 2 = f THEN 1 ELSE 0)
                   + (IF k = h THEN (IF f = 1 THEN eA ELSE eN) ELSE 0)
      named   == {BaseRow(k, LocOf(k), f, NaT) : k \in 1..p, f \in {0, 1}}
      kept    == {r \in named : N(r["Primary Type"], r["Arrest"]) > 0}
  IN [columns |-> BaseColumns,
      rows    |-> [r \in kept |-> N(r["Primary Type"], r["Arrest"])]
                    @@ Copies(BaseRow(NaN, NaN, 0, NaT), z)]

CategoricalTables ==
  {CategoricalTable(p, h, eA, eN, a, z) :
     p \in 0..NumCats, h \in 0..NumCats, eA \in 0..MaxExtra, eN \in 0..MaxExtra,
     a \in {0, 1}, z \in {0, 1}}

InitCategorical == df \in CategoricalTables /\ Blank

\* The table of the worked examples: 100 rows, 60 of category 1 (THEFT), 30
\* of them with an arrest, dated January 2015; 30 rows of category 2 dated
\* March 2015; 10 rows of category 2 without a timestamp.
ExampleTable ==
  [columns |-> BaseColumns,
   rows    |-> Copies(BaseRow(1, 1, 1, <<2015, 1, 5, 0>>), 30)
                 @@ Copies(BaseRow(1, 1, 0, <<2015, 1, 5, 23>>), 30)
                 @@ Copies(BaseRow(2, 2, 0, <<2015, 3, 7, 12>>), 30)
                 @@ Copies(BaseRow(2, NaN, 0, NaT), 10)]

InitExample == df = ExampleTable /\ Blank

LatNames == {None, "Latitude", "LAT"}
LonNames == {None, "Longitude"}

\* the cells of the coordinate columns the file has
GeoCells(la, lo, x, y) ==
  [c \in {la, lo} \ {None} |-> IF c = la THEN x ELSE y]

\* g1 and g2 rows with both coordinates (two places), nl rows without a
\* latitude, nb rows without any coordinate; every row has category c
SpatialTable(la, lo, c, g1, g2, nl, nb) ==
  LET R(x, y) == BaseRow(c, c, 0, NaT) @@ GeoCells(la, lo, x, y)
      N(r) == (IF r = R(1, 1) THEN g1 ELSE 0) + (IF r = R(2, 1) THEN g2 ELSE 0)
                + (IF r = R(NaN, 1) THEN nl ELSE 0)
                + (IF r = R(NaN, NaN) THEN nb ELSE 0)
      all  == {R(1, 1), R(2, 1), R(NaN, 1), R(NaN, NaN)}
  IN [columns |-> BaseColumns \o Pick(<<"Latitude", "LAT", "Longitude">>, {la, lo}),
      rows    |-> [r \in {x \in all : N(x) > 0} |-> N(r)]]

\* row counts on both sides of the sample cap
AroundCap == {Cap - 1, Cap, Cap + 1}

SpatialTables ==
  {SpatialTable(la, lo, c, g1, g2, nl, nb) :
     la \in LatNames, lo \in LonNames, c \in {1, NaN},
     g1 \in (0..MaxGeo) \cup AroundCap, g2 \in 0..MaxGeo,
     nl \in 0..MaxGeo, nb \in 0..MaxGeo}

InitSpatial == df \in SpatialTables /\ Blank

Init == InitTemporal \/ InitCategorical \/ InitExample \/ InitSpatial

-----------------------------------------------------------------------------
(* The script, block by block.  done is the set of blocks that have run;   *)
(* err is the exception that ended the run, "none" while it is running.    *)

Blocks == <<"normalize", "detect", "vis1", "vis2", "vis3", "vis4", "vis5",
            "vis6", "vis7", "vis9", "vis10">>

\* the blocks the script runs before block b
Before(b) == {Blocks[i] : i \in 1..((CHOOSE j \in 1..Len(Blocks) : Blocks[j] = b) - 1)}

\* the script runs its blocks top to bottom and stops at an exception
Runs(b) == err = "none" /\ b \notin done /\ done = Before(b)

\* lines 21-27
EnsureTemporal(d) ==
  IF ~HasCol(d, "Year") /\ HasCol(d, "IncidentDate")
  THEN LET d1 == Assign(d,  "Year",  [r \in DOMAIN d.rows  |-> DtYear(r["IncidentDate"])])
           d2 == Assign(d1, "Month", [r \in DOMAIN d1.rows |-> DtMonth(r["IncidentDate"])])
           d3 == Assign(d2, "Day",   [r \in DOMAIN d2.rows |-> DtDay(r["IncidentDate"])])
           d4 == Assign(d3, "Hour",  [r \in DOMAIN d3.rows |-> DtHour(r["IncidentDate"])])
       IN  Assign(d4, "Weekday", [r \in DOMAIN d4.rows |-> DayName(r["IncidentDate"])])
  ELSE d

Normalize ==
  /\ Runs("normalize")
  /\ df' = EnsureTemporal(df)
  /\ done' = done \cup {"normalize"}
  /\ UNCHANGED <<lat_col, lon_col, views, err>>

\* lines 30-31
Detect ==
  /\ Runs("detect")
  /\ lat_col' = FirstColumn(df, <<108, 97, 116>>)
  /\ lon_col' = FirstColumn(df, <<108, 111, 110>>)
  /\ done' = done \cup {"detect"}
  /\ UNCHANGED <<df, views, err>>

\* a block that raises: the run ends there
Raise(e) == err' = e /\ UNCHANGED done

Finish(b) == done' = done \cup {b} /\ UNCHANGED err

\* line 40 and line 87: Series.value_counts().head(10)
TopCounts(d, c) == HeadN(SortValuesDesc(ValueCounts(d.rows, c)), TopN)

Vis1Step ==
  /\ top_primary' = TopCounts(df, "Primary Type")
  /\ Finish("vis1")
  /\ UNCHANGED <<df, lat_col, lon_col, arrest_rate, df_ts, monthly, hourly,
                 weekday_counts, loc_top10, sample_scatter, cum, daily_counts,
                 monthly_groups>>

\* line 50: df[df[c].isin(top10)].groupby(c)['Arrest'].mean(), as a mapping
\* category -> <<sum of the flag, number of rows>>, the mean being their ratio
GroupMean(d, c, top10) ==
  LET sel == Filter(d.rows, {r \in DOMAIN d.rows : ~IsNull(r, c) /\ r[c] \in Range(top10)})
  IN [k \in {r[c] : r \in DOMAIN sel} |->
        <<SumBag(sel, {r \in DOMAIN sel : r[c] = k /\ r["Arrest"] = 1}),
          SumBag(sel, {r \in DOMAIN sel : r[c] = k})>>]

\* the groupby result as it is, in the order of its index, without .loc[top10]
Loc_groupOrder(g, labels) ==
  LET s == SortInts(DOMAIN g)
  IN [i \in 1..Len(s) |-> [key |-> s[i], val |-> g[s[i]]]]

\* Series.loc[labels]: the entries of the labels, in the order of the labels
Loc(g, labels) == [i \in 1..Len(labels) |-> [key |-> labels[i], val |-> g[labels[i]]]]

\* lines 49-50
Vis2Step ==
  /\ IF "vis1" \notin done THEN Raise("NameError") /\ UNCHANGED arrest_rate
     ELSE LET top10 == Keys(top_primary)
              g     == GroupMean(df, "Primary Type", top10)
          IN IF Range(top10) \subseteq DOMAIN g
             THEN arrest_rate' = Loc(g, top10) /\ Finish("vis2")
             ELSE Raise("KeyError") /\ UNCHANGED arrest_rate
  /\ UNCHANGED <<df, lat_col, lon_col, top_primary, df_ts, monthly, hourly,
                 weekday_counts, loc_top10, sample_scatter, cum, daily_counts,
                 monthly_groups>>

\* lines 59-60: df.dropna(subset=['IncidentDate']).copy() with its YearMonth column
TimestampedFrame(d) ==
  LET t == DropNa(d, {"IncidentDate"})
  IN Assign(t, "YearMonth", [r \in DOMAIN t.rows |-> ToMonthStart(r["IncidentDate"])])

\* dropna(inplace=True): the rows without a timestamp leave df itself
DfAfterDropNa_inplace(d) == DropNa(d, {"IncidentDate"})

\* what line 59 leaves in df: dropna returns a new frame
DfAfterDropNa(d) == d

\* line 61: df_ts.groupby('YearMonth').size().sort_index()
MonthlyCounts(t) == GroupSize(t.rows, [r \in DOMAIN t.rows |-> r["YearMonth"]])

\* lines 59-61
Vis3Step ==
  /\ df' = DfAfterDropNa(df)
  /\ df_ts' = TimestampedFrame(df)
  /\ monthly' = MonthlyCounts(df_ts')
  /\ Finish("vis3")
  /\ UNCHANGED <<lat_col, lon_col, top_primary, arrest_rate, hourly,
                 weekday_counts, loc_top10, sample_scatter, cum, daily_counts,
                 monthly_groups>>

\* line 71: the bin counts of hist(df['Hour'].dropna().astype(int), bins=24, range=(0,24))
HourHistogram(d) ==
  LET nn == Filter(d.rows, {r \in DOMAIN d.rows : ~IsNull(r, "Hour")})
      Bin(v) == IF v = HourBins THEN HourBins - 1 ELSE v
  IN [b \in 1..HourBins |->
        SumBag(nn, {r \in DOMAIN nn : r["Hour"] \in 0..HourBins /\ Bin(r["Hour"]) = b - 1})]

Vis4Step ==
  /\ IF HasCol(df, "Hour")
     THEN hourly' = HourHistogram(df) /\ Finish("vis4")
     ELSE Raise("KeyError") /\ UNCHANGED hourly
  /\ UNCHANGED <<df, lat_col, lon_col, top_primary, arrest_rate, df_ts, monthly,
                 weekday_counts, loc_top10, sample_scatter, cum, daily_counts,
                 monthly_groups>>

\* Series.reindex(labels): a label the series lacks gets NaN
Reindex(vc, labels) ==
  [i \in 1..Len(labels) |->
     [key |-> labels[i],
      val |-> IF labels[i] \in DOMAIN vc THEN vc[labels[i]] ELSE NaN]]

\* Series.fillna(v)
FillNa(s, v) ==
  [i \in 1..Len(s) |-> [key |-> s[i].key, val |-> IF s[i].val = NaN THEN v ELSE s[i].val]]

\* reindex without fillna(0)
WeekdayCounts_noFill(d) == Reindex(ValueCounts(d.rows, "Weekday"), weekday_order)

\* line 79
WeekdayCounts(d) == FillNa(Reindex(ValueCounts(d.rows, "Weekday"), weekday_order), 0)

Vis5Step ==
  /\ IF HasCol(df, "Weekday")
     THEN weekday_counts' = WeekdayCounts(df) /\ Finish("vis5")
     ELSE Raise("KeyError") /\ UNCHANGED weekday_counts
  /\ UNCHANGED <<df, lat_col, lon_col, top_primary, arrest_rate, df_ts, monthly,
                 hourly, loc_top10, sample_scatter, cum, daily_counts,
                 monthly_groups>>

Vis6Step ==
  /\ loc_top10' = TopCounts(df, "Location Description")
  /\ Finish("vis6")
  /\ UNCHANGED <<df, lat_col, lon_col, top_primary, arrest_rate, df_ts, monthly,
                 hourly, weekday_counts, sample_scatter, cum, daily_counts,
                 monthly_groups>>

Max(a, b) == IF a > b THEN a ELSE b

RECURSIVE SubBags(_, _, _)
\* the bags of n rows drawn without replacement from the rows S of bag B
SubBags(B, S, n) ==
  IF S = {} THEN (IF n = 0 THEN {EmptyBag} ELSE {})
  ELSE LET x    == CHOOSE x \in S : TRUE
           rest == SumBag(B, S \ {x})
       IN UNION {{Copies(x, k) @@ b : b \in SubBags(B, S \ {x}, n - k)} :
                   k \in Max(0, n - rest)..Min(B[x], n)}

\* line 97: the n of sample(n=..., random_state=1)
SampleSize(d) == Min(Cap, Len_(d))

\* line 97: the frame the sample is drawn from
Geotagged(d, la, lo) == DropNa(d, {la, lo})

\* lines 96-111.  DataFrame.sample raises ValueError when n exceeds the
\* number of rows; the rows drawn depend on the generator seeded with 1,
\* which makes the draw repeatable but not which rows it is.
Vis7Step ==
  /\ IF lat_col # None /\ lon_col # None
     THEN LET pop == Geotagged(df, lat_col, lon_col).rows
              n   == SampleSize(df)
          IN IF n > Size(pop)
             THEN Raise("ValueError") /\ UNCHANGED sample_scatter
             ELSE sample_scatter' \in SubBags(pop, DOMAIN pop, n) /\ Finish("vis7")
     ELSE UNCHANGED sample_scatter /\ Finish("vis7")
  /\ UNCHANGED <<df, lat_col, lon_col, top_primary, arrest_rate, df_ts, monthly,
                 hourly, weekday_counts, loc_top10, cum, daily_counts,
                 monthly_groups>>

\* line 114
Vis9Step ==
  /\ IF "vis3" \notin done THEN Raise("NameError") /\ UNCHANGED cum
     ELSE cum' = CumSum(monthly) /\ Finish("vis9")
  /\ UNCHANGED <<df, lat_col, lon_col, top_primary, arrest_rate, df_ts, monthly,
                 hourly, weekday_counts, loc_top10, sample_scatter, daily_counts,
                 monthly_groups>>

\* line 123
WithDateOnly(t) ==
  Assign(t, "DateOnly", [r \in DOMAIN t.rows |-> DtDate(r["IncidentDate"])])

\* line 124: groupby(['Year','Month','DateOnly']).size().reset_index(name='daily_count');
\* groupby leaves out the rows with a null key
DailyCounts(t) ==
  LET nn  == Filter(t.rows, {r \in DOMAIN t.rows :
                               /\ ~IsNull(r, "Year") /\ ~IsNull(r, "Month")
                               /\ ~IsNull(r, "DateOnly")})
      g   == GroupSize(nn, [r \in DOMAIN nn |-> <<r["Year"], r["Month"]>> \o r["DateOnly"]])
  IN [i \in 1..Len(g) |->
        [Year |-> g[i].key[1], Month |-> g[i].key[2],
         DateOnly |-> SubSeq(g[i].key, 3, 5), daily_count |-> g[i].val]]

\* range(0, 12) in place of range(1, 13)
MonthlyGroups_zeroBased(dc) ==
  [m \in 1..12 |->
     LET sel == SelectSeq(dc, LAMBDA e : e.Month = m - 1)
     IN [i \in 1..Len(sel) |-> sel[i].daily_count]]

\* line 125
MonthlyGroups(dc) ==
  [m \in 1..12 |->
     LET sel == SelectSeq(dc, LAMBDA e : e.Month = m)
     IN [i \in 1..Len(sel) |-> sel[i].daily_count]]

\* lines 123-125
Vis10Step ==
  /\ IF "vis3" \notin done
     THEN Raise("NameError") /\ UNCHANGED <<df_ts, daily_counts, monthly_groups>>
     ELSE /\ df_ts' = WithDateOnly(df_ts)
          /\ IF HasCol(df_ts', "Year") /\ HasCol(df_ts', "Month")
             THEN /\ daily_counts' = DailyCounts(df_ts')
                  /\ monthly_groups' = MonthlyGroups(daily_counts')
                  /\ Finish("vis10")
             ELSE Raise("KeyError") /\ UNCHANGED <<daily_counts, monthly_groups>>
  /\ UNCHANGED <<df, lat_col, lon_col, top_primary, arrest_rate, monthly, hourly,
                 weekday_counts, loc_top10, sample_scatter, cum>>

Vis1  == Runs("vis1")  /\ Vis1Step
Vis2  == Runs("vis2")  /\ Vis2Step
Vis3  == Runs("vis3")  /\ Vis3Step
Vis4  == Runs("vis4")  /\ Vis4Step
Vis5  == Runs("vis5")  /\ Vis5Step
Vis6  == Runs("vis6")  /\ Vis6Step
Vis7  == Runs("vis7")  /\ Vis7Step
Vis9  == Runs("vis9")  /\ Vis9Step
Vis10 == Runs("vis10") /\ Vis10Step

Next ==
  \/ Normalize \/ Detect \/ Vis1 \/ Vis2 \/ Vis3 \/ Vis4 \/ Vis5 \/ Vis6
  \/ Vis7 \/ Vis9 \/ Vis10

Spec == Init /\ [][Next]_vars
-----------------------------------------------------------------------------
(* The view blocks run in any order once the table is normalised and the   *)
(* coordinate columns are detected: a block that reads a name no block has *)
(* bound yet raises NameError.                                             *)

MayRun(b) == err = "none" /\ b \notin done /\ {"normalize", "detect"} \subseteq done

Vis1Any  == MayRun("vis1")  /\ Vis1Step
Vis2Any  == MayRun("vis2")  /\ Vis2Step
Vis3Any  == MayRun("vis3")  /\ Vis3Step
Vis4Any  == MayRun("vis4")  /\ Vis4Step
Vis5Any  == MayRun("vis5")  /\ Vis5Step
Vis6Any  == MayRun("vis6")  /\ Vis6Step
Vis7Any  == MayRun("vis7")  /\ Vis7Step
Vis9Any  == MayRun("vis9")  /\ Vis9Step
Vis10Any == MayRun("vis10") /\ Vis10Step

AnyOrderTables ==
  {ExampleTable}
    \cup {TemporalTable(s, T) : s \in RowLists, T \in {{}, Range(TemporalCols)}}
    \cup {SpatialTable("Latitude", "Longitude", 1, g1, g2, 0, 0) :
            g1 \in 0..MaxGeo, g2 \in 0..MaxGeo}

InitAnyOrder == df \in AnyOrderTables /\ Blank

NextAnyOrder ==
  \/ Normalize \/ Detect \/ Vis1Any \/ Vis2Any \/ Vis3Any \/ Vis4Any \/ Vis5Any
  \/ Vis6Any \/ Vis7Any \/ Vis9Any \/ Vis10Any

SpecAnyOrder == InitAnyOrder /\ [][NextAnyOrder]_vars

-----------------------------------------------------------------------------
(* What the claims speak of *)

\* the number of rows of df that satisfy P
CountWhere(P(_)) == SumBag(df.rows, {r \in DOMAIN df.rows : P(r)})

Stamped(r) == r["IncidentDate"] # NaT

\* the distinct non-null values of column c
Values(c) == {r[c] : r \in DOMAIN df.rows} \ {NullOf(c)}

Detected == lat_col # None /\ lon_col # None

AllDone == done = Range(Blocks)

NonIncreasing(s) == \A i \in 1..(Len(s) - 1) : s[i].val >= s[i + 1].val
NonDecreasing(s) == \A i \in 1..(Len(s) - 1) : s[i].val <= s[i + 1].val
-----------------------------------------------------------------------------
(* C1 *)

\* C1: whenever both a latitude and a longitude column are detected, the
\* sampling block completes without error and its sample is drawn without
\* replacement from the rows with both coordinates, its size being exactly
\* min(Cap, number of rows with both coordinates non-null).
C1_SamplerContract ==
  Detected =>
    /\ err # "ValueError"
    /\ "vis7" \in done =>
         LET pop == Filter(df.rows, {r \in DOMAIN df.rows :
                                       r[lat_col] # NaN /\ r[lon_col] # NaN})
         IN /\ sample_scatter \sqsubseteq pop
            /\ Size(sample_scatter) = Min(Cap, Size(pop))

-----------------------------------------------------------------------------
(* C2 *)

\* C2: once the normaliser has run, the five temporal columns Year, Month,
\* Day, Hour and Weekday all exist, whichever of them the file lacked, so
\* that no later block fails to find its column.
C2_TemporalFieldsExist ==
  "normalize" \in done =>
    /\ \A c \in Range(TemporalCols) : HasCol(df, c)
    /\ err # "KeyError"

-----------------------------------------------------------------------------
(* C3 *)

WeekdayShape ==
  /\ Len(weekday_counts) = 7
  /\ Keys(weekday_counts) = weekday_order
  /\ \A i \in 1..7 :
       weekday_counts[i].val = CountWhere(LAMBDA r : r["Weekday"] = weekday_order[i])

\* C3 as stated: the weekday distribution has the 7 entries Monday..Sunday
\* in that order, a weekday without rows has count 0, and the 7 counts sum
\* to the number of rows whose Weekday value is non-null.
C3_WeekdaySumsNonNull ==
  "vis5" \in done =>
    /\ WeekdayShape
    /\ SumVals(weekday_counts, 7) = CountWhere(LAMBDA r : r["Weekday"] # NoDay)

\* C3 amended: the same 7 entries in the same order, each the number of rows
\* holding that name (0 when there is none), and the 7 counts sum to the
\* number of rows whose Weekday value is one of the seven names.
C3_WeekdaySumsNamed ==
  "vis5" \in done =>
    /\ WeekdayShape
    /\ SumVals(weekday_counts, 7)
         = CountWhere(LAMBDA r : r["Weekday"] \in Range(weekday_order))

\* a distribution with an empty weekday, a counted one, and a row whose
\* Weekday cell is a string outside the seven names
C3_Witness ==
  /\ "vis5" \in done
  /\ \E i \in 1..7 : weekday_counts[i].val = 0
  /\ \E i \in 1..7 : weekday_counts[i].val > 0
  /\ \E r \in DOMAIN df.rows :
       r["Weekday"] # NoDay /\ r["Weekday"] \notin Range(weekday_order)

-----------------------------------------------------------------------------
(* C4 *)

\* C4: the cumulative series has the periods of the time series in the same
\* order, its i-th value is the sum of the first i counts, it never
\* decreases, and its last value is the sum of all counts, which is the
\* number of rows with a non-null timestamp.
C4_Cumulative ==
  "vis9" \in done =>
    /\ Keys(cum) = Keys(monthly)
    /\ \A i \in 1..Len(cum) : cum[i].val = SumVals(monthly, i)
    /\ NonDecreasing(cum)
    /\ SumVals(monthly, Len(monthly)) = CountWhere(Stamped)
    /\ Len(cum) > 0 => cum[Len(cum)].val = CountWhere(Stamped)

\* a cumulative series over several months of a table that also has rows
\* without a timestamp
C4_Witness ==
  /\ "vis9" \in done
  /\ Len(cum) >= 2
  /\ cum[1].val < cum[Len(cum)].val
  /\ CountWhere(Stamped) < Len_(df)

-----------------------------------------------------------------------------
(* C5 *)

\* C5: the arrest rates cover exactly the categories of the top-10 ranking,
\* in its order; each is the mean of the 0/1 arrest flag over the rows of the
\* category (arrests over rows, with at least one row), hence within [0,1];
\* 60 rows of a category with 30 arrests give 0.5.
C5_ArrestRate ==
  "vis2" \in done =>
    /\ Keys(arrest_rate) = Keys(top_primary)
    /\ \A i \in 1..Len(arrest_rate) :
         LET k == arrest_rate[i].key
             n == CountWhere(LAMBDA r : r["Primary Type"] = k)
             a == CountWhere(LAMBDA r : r["Primary Type"] = k /\ r["Arrest"] = 1)
         IN /\ arrest_rate[i].val = <<a, n>>
            /\ n > 0 /\ 0 <= a /\ a <= n
            /\ (n = 60 /\ a = 30) => 2 * arrest_rate[i].val[1] = arrest_rate[i].val[2]

\* rates of a table with more than ten categories: ten entries, not in
\* category order, one of them strictly between 0 and 1
C5_Witness ==
  /\ "vis2" \in done
  /\ Cardinality(Values("Primary Type")) > TopN
  /\ Len(arrest_rate) = TopN
  /\ \E i \in 1..(TopN - 1) : arrest_rate[i].key > arrest_rate[i + 1].key
  /\ \E i \in 1..TopN :
       0 < arrest_rate[i].val[1] /\ arrest_rate[i].val[1] < arrest_rate[i].val[2]

-----------------------------------------------------------------------------
(* C6 *)

Ranking(s, c) ==
  LET N(v) == CountWhere(LAMBDA r : r[c] = v)
  IN /\ Len(s) = Min(TopN, Cardinality(Values(c)))
     /\ \A i \in 1..Len(s) : s[i].key \in Values(c) /\ s[i].val = N(s[i].key)
     /\ \A i, j \in 1..Len(s) : i # j => s[i].key # s[j].key
     /\ NonIncreasing(s)
     /\ \A v \in Values(c) \ Range(Keys(s)) : \A i \in 1..Len(s) : N(v) <= s[i].val
     /\ SumVals(s, Len(s)) <= Len_(df)

\* C6: the ranking of a categorical column has min(10, number of distinct
\* non-null values) entries, each with the exact number of rows holding the
\* value; the counts never increase along it, no left-out value has more
\* rows than an included one, nulls are not counted, and the counts sum to at
\* most the number of rows.
C6_Ranking ==
  /\ "vis1" \in done => Ranking(top_primary, "Primary Type")
  /\ "vis6" \in done => Ranking(loc_top10, "Location Description")

\* both rankings of a table with more than ten categories, rows without a
\* category, and a strict drop in the counts
C6_Witness ==
  /\ "vis6" \in done
  /\ Cardinality(Values("Primary Type")) > TopN
  /\ Len(top_primary) = TopN
  /\ \E r \in DOMAIN df.rows : r["Primary Type"] = NaN
  /\ \E i \in 1..(TopN - 1) : top_primary[i].val > top_primary[i + 1].val
  /\ Len(loc_top10) >= 2

-----------------------------------------------------------------------------
(* C7 *)

\* C7: the time series has exactly one entry per calendar month that holds a
\* row with a non-null timestamp and none for any other month, in strictly
\* increasing order of period, each count being the number of such rows of
\* the month (at least 1); rows without a timestamp count nowhere.
C7_TimeSeries ==
  "vis3" \in done =>
    LET months == {<<r["IncidentDate"][1], r["IncidentDate"][2], 1, 0>> :
                     r \in {x \in DOMAIN df.rows : Stamped(x)}}
    IN /\ Range(Keys(monthly)) = months
       /\ Len(monthly) = Cardinality(months)
       /\ \A i \in 1..(Len(monthly) - 1) : LexLess(monthly[i].key, monthly[i + 1].key)
       /\ \A i \in 1..Len(monthly) :
            /\ monthly[i].val >= 1
            /\ monthly[i].val =
                 CountWhere(LAMBDA r : /\ Stamped(r)
                                       /\ r["IncidentDate"][1] = monthly[i].key[1]
                                       /\ r["IncidentDate"][2] = monthly[i].key[2])

\* January and March 2015 without February, in a table that also has rows
\* without a timestamp
C7_Witness ==
  /\ "vis3" \in done
  /\ Keys(monthly) = <<<<2015, 1, 1, 0>>, <<2015, 3, 1, 0>>>>
  /\ monthly[1].val > 1
  /\ CountWhere(Stamped) < Len_(df)
-----------------------------------------------------------------------------
(* C8 *)

\* the sum of the elements of a sequence of numbers
RECURSIVE SumSeq(_)
SumSeq(q) == IF q = <<>> THEN 0 ELSE Head(q) + SumSeq(Tail(q))

\* the sum of all the counts of the 12 monthly sequences
GroupsTotal == SumSeq([m \in 1..12 |-> SumSeq(monthly_groups[m])])

DateOf(r) == SubSeq(r["IncidentDate"], 1, 3)

\* C8 as stated: every month 1..12 maps to one count per distinct calendar
\* date of the timestamps falling in that month (of any year), the count
\* being the number of rows with a timestamp on that date; a month without
\* data maps to the empty sequence; the counts sum to the number of rows
\* with a non-null timestamp.
C8_DailyCountsByTimestampMonth ==
  "vis10" \in done =>
    /\ DOMAIN monthly_groups = 1..12
    /\ \A m \in 1..12 :
         LET inMonth == {r \in DOMAIN df.rows : Stamped(r) /\ r["IncidentDate"][2] = m}
             dates   == SortLex({DateOf(r) : r \in inMonth})
         IN SeqToBag(monthly_groups[m])
              = SeqToBag([i \in 1..Len(dates) |->
                            CountWhere(LAMBDA r : Stamped(r) /\ DateOf(r) = dates[i])])
    /\ GroupsTotal = CountWhere(Stamped)

\* C8 amended: every month 1..12 maps to one count per distinct combination
\* (Year, Month, calendar date of the timestamp) found among the rows with a
\* non-null timestamp and non-null Year and Month whose Month column equals
\* that month, in ascending order of the combination, the count being the
\* number of such rows with that combination; a month without such rows maps
\* to the empty sequence; the counts sum to the number of rows with a
\* non-null timestamp, a non-null Year and a Month in 1..12.
C8_DailyCountsByMonthColumn ==
  "vis10" \in done =>
    /\ DOMAIN monthly_groups = 1..12
    /\ \A m \in 1..12 :
         LET inMonth == {r \in DOMAIN df.rows :
                           Stamped(r) /\ r["Year"] # NaN /\ r["Month"] = m}
             combos  == SortLex({<<r["Year"], r["Month"]>> \o DateOf(r) : r \in inMonth})
         IN monthly_groups[m]
              = [i \in 1..Len(combos) |->
                   CountWhere(LAMBDA r : /\ Stamped(r)
                                         /\ r["Year"] # NaN /\ r["Month"] # NaN
                                         /\ <<r["Year"], r["Month"]>> \o DateOf(r)
                                              = combos[i])]
    /\ GroupsTotal
         = CountWhere(LAMBDA r : Stamped(r) /\ r["Year"] # NaN /\ r["Month"] \in 1..12)

\* monthly sequences of a table in which a row's Month cell is empty or is
\* not the month of its timestamp: a month with a count, a month without
C8_Witness ==
  /\ "vis10" \in done
  /\ \E r \in DOMAIN df.rows : Stamped(r) /\ r["Month"] # r["IncidentDate"][2]
  /\ \E m \in 1..12 : Len(monthly_groups[m]) >= 1
  /\ \E m \in 1..12 : monthly_groups[m] = <<>>

-----------------------------------------------------------------------------
(* C9 *)

\* every timestamp, coordinate and category cell of df is null
FullyNull ==
  \A r \in DOMAIN df.rows :
    /\ r["Primary Type"] = NaN /\ r["Location Description"] = NaN
    /\ r["IncidentDate"] = NaT
    /\ \A c \in Range(df.columns) \cap {"Latitude", "LAT", "Longitude"} : r[c] = NaN

\* C9: on a table without rows, or whose timestamp, coordinate and category
\* cells are all null, no block raises, and the finished run leaves empty
\* rankings, rates and series, seven zero weekday counts, an empty sample
\* and twelve empty monthly sequences.
C9_EmptyInput ==
  (Len_(df) = 0 \/ FullyNull) =>
    /\ err = "none"
    /\ AllDone =>
         /\ top_primary = <<>> /\ loc_top10 = <<>> /\ arrest_rate = <<>>
         /\ monthly = <<>> /\ cum = <<>>
         /\ Len(weekday_counts) = 7 /\ \A i \in 1..7 : weekday_counts[i].val = 0
         /\ sample_scatter = EmptyBag
         /\ \A m \in 1..12 : monthly_groups[m] = <<>>

-----------------------------------------------------------------------------
(* C10, under SpecAnyOrder *)

\* every view a block has produced is the value the script computes for it
\* from the normalised table
ViewsAgree ==
  LET top == TopCounts(df, "Primary Type")
      ts  == TimestampedFrame(df)
      mon == MonthlyCounts(ts)
  IN /\ "vis1" \in done => top_primary = top
     /\ "vis2" \in done =>
          arrest_rate = Loc(GroupMean(df, "Primary Type", Keys(top)), Keys(top))
     /\ "vis3" \in done => monthly = mon
     /\ "vis4" \in done => hourly = HourHistogram(df)
     /\ "vis5" \in done => weekday_counts = WeekdayCounts(df)
     /\ "vis6" \in done => loc_top10 = TopCounts(df, "Location Description")
     /\ ("vis7" \in done /\ Detected) =>
          /\ sample_scatter \sqsubseteq Geotagged(df, lat_col, lon_col).rows
          /\ Size(sample_scatter) = SampleSize(df)
     /\ "vis9" \in done => cum = CumSum(mon)
     /\ "vis10" \in done =>
          /\ daily_counts = DailyCounts(WithDateOnly(ts))
          /\ monthly_groups = MonthlyGroups(daily_counts)

\* a block once finished, its view is not assigned again
ViewsKept ==
  /\ "vis1" \in done  => top_primary' = top_primary
  /\ "vis2" \in done  => arrest_rate' = arrest_rate
  /\ "vis3" \in done  => monthly' = monthly
  /\ "vis4" \in done  => hourly' = hourly
  /\ "vis5" \in done  => weekday_counts' = weekday_counts
  /\ "vis6" \in done  => loc_top10' = loc_top10
  /\ "vis7" \in done  => sample_scatter' = sample_scatter
  /\ "vis9" \in done  => cum' = cum
  /\ "vis10" \in done => daily_counts' = daily_counts /\ monthly_groups' = monthly_groups

\* C10 as stated: the view blocks read no state written by one another, so
\* run in any order each of them completes and yields the view of the
\* sequential run.
C10_AnyOrderSameViews == ViewsAgree /\ err # "NameError"

\* C10 amended: once the normaliser has run, no view block changes the
\* normalised table or a view already produced, and every view produced, in
\* whatever order the blocks run, is the view of the sequential run; but the
\* rate block reads the ranking of block 1 and the cumulative and monthly
\* distribution blocks read what block 3 wrote, and fail with NameError when
\* run before it.
C10_OrderRespectingDependencies ==
  /\ [](ViewsAgree /\ (err = "NameError" => ~({"vis1", "vis3"} \subseteq done)))
  /\ [][("normalize" \in done => df' = df) /\ ViewsKept]_vars

\* the monthly distribution and the cumulative series produced before the
\* ranking, the weekday counts and the sample
C10_Witness ==
  /\ {"vis3", "vis9", "vis10"} \subseteq done
  /\ done \cap {"vis1", "vis2", "vis5", "vis7"} = {}
  /\ err = "none"
  /\ Len(cum) >= 2
  /\ CountWhere(Stamped) < Len_(df)
====
